---- MODULE Spec2Model ----
(***************************************************************************)
(* Model of the agent adapters (src/*_agent.py) and of the Streamlit host  *)
(* script (src/agent-ui.py).                                               *)
(*                                                                         *)
(* Strings are sequences of tokens: the empty string is << >>, a literal   *)
(* is a one-token sequence and an f-string is the concatenation of its     *)
(* literal part and the interpolated text.                                 *)
(***************************************************************************)
EXTENDS Integers, Sequences, FiniteSets, TLC

VARIABLES
    inst,             \* the instance a caller of one adapter module holds (agent = Agent())
    lastCall,         \* the last call made on an adapter instance, and what it returned
                      \* (in the host: the call made in the script run under way)
    files,            \* the *_agent.py modules in the directory of the host
    session_state,    \* st.session_state: a mapping from the keys present to their values
    pc,               \* the block of agent-ui.py the script run is at, "idle" between runs
    event,            \* the interaction that started the script run
    available_agents, \* module name -> display name: what get_available_agents
                      \* returned in this run, until the selectbox has been given it
    options,          \* the options of the selectbox as it was last rendered
    discoveries,      \* how many times get_available_agents has run in this process
    tried,            \* what the modules did in the call of get_available_agents
                      \* made by a caller of it alone
    selected_agent,   \* the value the selectbox returned in this run
    screen,           \* the elements the script run has rendered so far
    switched          \* what the agent-type change of the script run under way found
                      \* in the session, NoSwitch when the type did not change

vars == <<inst, lastCall, files, session_state, pc, event, available_agents,
          options, discoveries, tried, selected_agent, screen, switched>>

hostVars == <<files, session_state, pc, event, available_agents, options, discoveries,
              tried, selected_agent, screen, switched>>

(* ------------------------------ bounds --------------------------------- *)

\* number of chat / clear_chat calls made on one instance
MaxCalls == 3

\* number of *_agent.py modules in the directory of the host
MaxFiles == 2

\* number of chat / clear_chat calls the host makes on the instance it holds
MaxSessionCalls == 2

\* the runs of get_available_agents are counted up to this number
MaxDiscoveries == 2

(* ------------------------- values and inputs --------------------------- *)

NoneId == 0

\* the messages a caller passes to chat (the empty string included)
Msgs == { <<>>, <<"hi">> }

\* the texts of the exceptions the providers raise
ExcTexts == { "timeout", "invalid api key sk-123" }

user(content) == [role |-> "user", content |-> content]

assistant(content) == [role |-> "assistant", content |-> content]

\* what the outside world (model provider, search provider) does during one
\* chat call:
\*   text         the model answers with a text
\*   empty        the model answers with an empty text
\*   raise        the provider call raises
\*   tool_ok      the model calls a tool, the tool returns, the model answers
\*   tool_raise   the model calls web_search and the search provider raises
\*   follow_raise the tool returns and the provider call that follows raises
\*   tool_caught  the search provider raises, the orchestration library hands
\*                the error to the model as the tool's result, the model answers
\*   tool_again   the model calls a tool, the tool returns, and the model calls
\*                a tool once more before it answers
Envs ==
    { [sc |-> s, exc |-> ""] : s \in {"text", "empty", "tool_ok", "tool_caught", "tool_again"} }
    \cup { [sc |-> s, exc |-> e] : s \in {"raise", "tool_raise", "follow_raise"}, e \in ExcTexts }

ModelText(env) == IF env.sc = "empty" THEN <<>> ELSE <<"answer">>

\* result of a try body or of a call: raised or returned, and the state left
Raise(e, conv) == [raised |-> TRUE, exc |-> e, ty |-> "none", reply |-> <<>>, conv |-> conv]

Return(ty, reply, conv) == [raised |-> FALSE, exc |-> "", ty |-> ty, reply |-> reply, conv |-> conv]

(* ------------- the backends the adapters call (external) --------------- *)

ToolScenario(env) ==
    env.sc \in {"tool_ok", "tool_caught", "tool_again", "tool_raise", "follow_raise"}

Raising(env) == env.sc \in {"raise", "tool_raise", "follow_raise"}

\* One run of an orchestration library over a conversation it keeps itself
\* (graph.stream, runner.run_async, agent.run): the user turn is recorded when
\* the run starts, the assistant turn when it ends; a fault inside ends the
\* run with an exception.
Backend(history, message, env) ==
    IF Raising(env)
    THEN Raise(env.exc, Append(history, user(message)))
    ELSE Return("str", ModelText(env),
                history \o << user(message), assistant(ModelText(env)) >>)

Lookup(store, key) == IF key \in DOMAIN store THEN store[key] ELSE <<>>

Store(store, key, value) ==
    [k \in DOMAIN store \cup {key} |-> IF k = key THEN value ELSE store[k]]

(* ------------------ src/openai_responses_agent.py ---------------------- *)

\* previous_response_id, and the responses the server keeps: responses[i] is
\* the conversation that response i continues and contains
openai_responses_init == [previous_response_id |-> NoneId, responses |-> <<>>]

\* an output item of type function_call, and the input item that answers it
function_call(call_id) ==
    [role |-> "function_call", content |-> <<"web_search">>, call_id |-> call_id]

function_call_output(call_id) ==
    [role |-> "function_call_output", content |-> <<"results">>, call_id |-> call_id]

CallIds(items, role) ==
    { items[i].call_id : i \in { j \in DOMAIN items : items[j].role = role } }

\* the function calls of a conversation that have no output
Unanswered(items) == CallIds(items, "function_call") \ CallIds(items, "function_call_output")

\* The server refuses to continue a response whose function calls the input
\* does not answer.
responses_accepts(responses, input, previous_response_id) ==
    \/ previous_response_id = NoneId
    \/ Unanswered(responses[previous_response_id] \o input) = {}

\* client.responses.create: the new response has id Len(result)
responses_create(responses, input, previous_response_id, output) ==
    Append(responses,
           (IF previous_response_id = NoneId THEN <<>> ELSE responses[previous_response_id])
           \o input \o output)

\* the result of _process_response: (text, new id), or the exception that
\* leaves it; responses is the server's store afterwards
_process_response(responses, response_id, env) ==
    IF ~ToolScenario(env)
    THEN [raised |-> FALSE, exc |-> "", text |-> ModelText(env),
          id |-> response_id, responses |-> responses]
    ELSE IF env.sc = "tool_raise"
    THEN [raised |-> TRUE, exc |-> env.exc, text |-> <<>>,
          id |-> response_id, responses |-> responses]
    ELSE IF env.sc = "follow_raise"
    THEN [raised |-> TRUE, exc |-> env.exc, text |-> <<>>,
          id |-> response_id, responses |-> responses]
    ELSE LET response == responses[response_id]
             tool_results == << function_call_output(response[Len(response)].call_id) >>
             again == env.sc = "tool_again"
             follow_up == responses_create(
                              responses, tool_results, response_id,
                              IF again THEN << function_call(Len(responses) + 1) >>
                              ELSE << assistant(ModelText(env)) >>)
         IN [raised |-> FALSE, exc |-> "",
             text |-> IF again THEN <<>> ELSE ModelText(env),
             id |-> Len(follow_up), responses |-> follow_up]

\* the try block of chat with previous_response_id assigned as soon as the
\* first response is there
openai_responses_try_eager(conv, message, env) ==
    IF env.sc = "raise"
    THEN Raise(env.exc, conv)
    ELSE IF ~responses_accepts(conv.responses, <<user(message)>>, conv.previous_response_id)
    THEN Raise("No tool output found for function call", conv)
    ELSE LET first == responses_create(conv.responses, <<user(message)>>,
                                       conv.previous_response_id,
                                       IF ToolScenario(env)
                                       THEN << function_call(Len(conv.responses) + 1) >>
                                       ELSE << assistant(ModelText(env)) >>)
             p == _process_response(first, Len(first), env)
         IN IF p.raised
            THEN Raise(p.exc, [previous_response_id |-> Len(first), responses |-> p.responses])
            ELSE Return("str", p.text,
                        [previous_response_id |-> p.id, responses |-> p.responses])

\* lines 175-207: the try block of chat
openai_responses_try(conv, message, env) ==
    IF env.sc = "raise"
    THEN Raise(env.exc, conv)
    ELSE IF ~responses_accepts(conv.responses, <<user(message)>>, conv.previous_response_id)
    THEN Raise("No tool output found for function call", conv)
    ELSE LET first == responses_create(conv.responses, <<user(message)>>,
                                       conv.previous_response_id,
                                       IF ToolScenario(env)
                                       THEN << function_call(Len(conv.responses) + 1) >>
                                       ELSE << assistant(ModelText(env)) >>)
             p == _process_response(first, Len(first), env)
         IN IF p.raised
            THEN Raise(p.exc, [conv EXCEPT !.responses = p.responses])
            ELSE Return("str", p.text,
                        [previous_response_id |-> p.id, responses |-> p.responses])

openai_responses_chat(conv, message, env) ==
    LET t == openai_responses_try(conv, message, env)
    IN IF t.raised
       THEN Return("str", <<"Sorry, I encountered an error processing your request.">>, t.conv)
       ELSE t

openai_responses_clear_chat(conv) ==
    Return("bool", TRUE, [conv EXCEPT !.previous_response_id = NoneId])

(* --------------------- src/google_adk_agent.py ------------------------- *)

\* _session_id (uuid4, modelled as a fresh number) and the sessions of the
\* InMemorySessionService: sessions[i] holds the events of session i
google_adk_init == [_session_id |-> 1, sessions |-> << <<>> >>]

\* _run: runner.run_async on the current session, the text of the final event
google_adk_run(conv, message, env) ==
    LET r == Backend(Lookup(conv.sessions, conv._session_id), message, env)
    IN [r EXCEPT !.conv = [conv EXCEPT !.sessions = Store(conv.sessions, conv._session_id, r.conv)]]

\* lines 100-138; running_loop: the calling thread has a running event loop,
\* in which asyncio.run raises before the coroutine is started
google_adk_chat_in(running_loop, conv, message, env) ==
    LET t == IF running_loop
             THEN Raise("asyncio.run() cannot be called from a running event loop", conv)
             ELSE google_adk_run(conv, message, env)
    IN IF t.raised
       THEN Return("str", <<"System Error: ">> \o <<t.exc>>, t.conv)
       ELSE IF t.reply # <<>>
            THEN t
            ELSE Return("str", <<"Agent generated an empty response.">>, t.conv)

\* chat called from a thread without a running event loop
google_adk_chat(conv, message, env) == google_adk_chat_in(FALSE, conv, message, env)

google_adk_clear_chat(conv) ==
    LET new_id == Len(conv.sessions) + 1
    IN Return("bool", TRUE,
              [_session_id |-> new_id, sessions |-> Store(conv.sessions, new_id, <<>>)])

(* ----------------------- src/langgraph_agent.py ------------------------ *)

\* thread_id and the checkpoints of the MemorySaver, one conversation per
\* thread that has been used
langgraph_init == [thread_id |-> 1, memory |-> <<>>]

\* a thread id allocator that hands out an id used before
_inc_thread_id_reuse(conv) ==
    [conv EXCEPT !.thread_id = IF conv.thread_id = 1 THEN 2 ELSE 1]

_inc_thread_id(conv) == [conv EXCEPT !.thread_id = conv.thread_id + 1]

langgraph_try(conv, message, env) ==
    LET r == Backend(Lookup(conv.memory, conv.thread_id), message, env)
    IN [r EXCEPT !.conv = [conv EXCEPT !.memory = Store(conv.memory, conv.thread_id, r.conv)]]

\* chat without its exception handler
langgraph_chat_unguarded(conv, message, env) == langgraph_try(conv, message, env)

langgraph_chat(conv, message, env) ==
    LET t == langgraph_try(conv, message, env)
    IN IF t.raised
       THEN Return("str", <<"Sorry, I encountered an error processing your request.">>, t.conv)
       ELSE t

langgraph_clear_chat(conv) == Return("bool", TRUE, _inc_thread_id(conv))

(* ------------------------ src/crewai_agent.py -------------------------- *)

crewai_init == [_messages |-> <<>>]

\* crew.kickoff reads the history it is given and keeps nothing
crewai_try(conv, message, env) ==
    LET r == Backend(conv._messages, message, env)
    IN IF r.raised
       THEN Raise(r.exc, conv)
       ELSE Return("str", r.reply,
                   [_messages |-> conv._messages \o << user(message), assistant(r.reply) >>])

crewai_chat(conv, message, env) ==
    LET t == crewai_try(conv, message, env)
    IN IF t.raised
       THEN Return("str", <<"System Error: Unable to process request.">>, t.conv)
       ELSE t

\* clear_chat that reports success and keeps the history
crewai_clear_chat_keeps(conv) == Return("bool", TRUE, conv)

crewai_clear_chat(conv) == Return("bool", TRUE, [conv EXCEPT !._messages = <<>>])

(* --------------------- src/smolagents_agent.py ------------------------- *)

\* the memory of the ToolCallingAgent, kept between runs (reset=False)
smolagents_init == [memory |-> <<>>]

smolagents_try(conv, message, env) ==
    LET r == Backend(conv.memory, message, env)
    IN [r EXCEPT !.conv = [memory |-> r.conv]]

smolagents_chat(conv, message, env) ==
    LET t == smolagents_try(conv, message, env)
    IN IF t.raised
       THEN Return("str", <<"System Error: ">> \o <<t.exc>>, t.conv)
       ELSE t

smolagents_clear_chat(conv) == Return("bool", TRUE, [conv EXCEPT !.memory = <<>>])

(* ------------------ src/openai_agents_sdk_agent.py --------------------- *)

openai_agents_sdk_init == [conversation_history |-> <<>>]

\* the user message is appended before runner.run_sync is called
openai_agents_sdk_try(conv, message, env) ==
    LET history == Append(conv.conversation_history, user(message))
        r == Backend(conv.conversation_history, message, env)
    IN IF r.raised
       THEN Raise(r.exc, [conversation_history |-> history])
       ELSE Return("str", r.reply,
                   [conversation_history |-> Append(history, assistant(r.reply))])

openai_agents_sdk_chat(conv, message, env) ==
    LET t == openai_agents_sdk_try(conv, message, env)
    IN IF t.raised
       THEN Return("str", <<"Sorry, I encountered an error processing your request.">>, t.conv)
       ELSE t

openai_agents_sdk_clear_chat(conv) ==
    Return("bool", TRUE, [conv EXCEPT !.conversation_history = <<>>])

(* ---------------------- src/llama_index_agent.py ----------------------- *)

\* the ChatMemoryBuffer handed to every run
llama_index_init == [memory |-> <<>>]

_chat_async(conv, message, env) ==
    LET r == Backend(conv.memory, message, env)
    IN [r EXCEPT !.conv = [memory |-> r.conv]]

\* lines 113-140; running_loop: the calling thread has a running event loop.
\* There asyncio.run raises the RuntimeError the handler of line 127 looks
\* for, and run_until_complete on the running loop raises the next one
\* ("This event loop is already running"), which leaves the inner try.
llama_index_chat_in(running_loop, conv, message, env) ==
    LET t == IF running_loop
             THEN Raise("This event loop is already running", conv)
             ELSE _chat_async(conv, message, env)
    IN IF t.raised
       THEN Return("str", <<"Sorry, I encountered an error processing your request.">>, t.conv)
       ELSE t

\* chat called from a thread without a running event loop
llama_index_chat(conv, message, env) == llama_index_chat_in(FALSE, conv, message, env)

llama_index_clear_chat(conv) == Return("bool", TRUE, [conv EXCEPT !.memory = <<>>])

(* ------------------------ the adapter contract ------------------------- *)

AdapterKinds ==
    { "openai_responses_agent", "google_adk_agent", "langgraph_agent", "crewai_agent",
      "smolagents_agent", "openai_agents_sdk_agent", "llama_index_agent" }

\* Agent(): the conversation state of a freshly constructed instance
NewConv(kind) ==
    CASE kind = "openai_responses_agent" -> openai_responses_init
      [] kind = "google_adk_agent" -> google_adk_init
      [] kind = "langgraph_agent" -> langgraph_init
      [] kind = "crewai_agent" -> crewai_init
      [] kind = "smolagents_agent" -> smolagents_init
      [] kind = "openai_agents_sdk_agent" -> openai_agents_sdk_init
      [] kind = "llama_index_agent" -> llama_index_init

\* The Responses adapter runs the tools itself and has no handler around the
\* tool call; the other adapters leave the tool loop to their library.
EnvsOf(kind) ==
    IF kind = "openai_responses_agent" THEN { e \in Envs : e.sc # "tool_caught" } ELSE Envs

chat(kind, conv, message, env) ==
    CASE kind = "openai_responses_agent" -> openai_responses_chat(conv, message, env)
      [] kind = "google_adk_agent" -> google_adk_chat(conv, message, env)
      [] kind = "langgraph_agent" -> langgraph_chat(conv, message, env)
      [] kind = "crewai_agent" -> crewai_chat(conv, message, env)
      [] kind = "smolagents_agent" -> smolagents_chat(conv, message, env)
      [] kind = "openai_agents_sdk_agent" -> openai_agents_sdk_chat(conv, message, env)
      [] kind = "llama_index_agent" -> llama_index_chat(conv, message, env)

clear_chat(kind, conv) ==
    CASE kind = "openai_responses_agent" -> openai_responses_clear_chat(conv)
      [] kind = "google_adk_agent" -> google_adk_clear_chat(conv)
      [] kind = "langgraph_agent" -> langgraph_clear_chat(conv)
      [] kind = "crewai_agent" -> crewai_clear_chat(conv)
      [] kind = "smolagents_agent" -> smolagents_clear_chat(conv)
      [] kind = "openai_agents_sdk_agent" -> openai_agents_sdk_clear_chat(conv)
      [] kind = "llama_index_agent" -> llama_index_clear_chat(conv)

\* the conversation the backend is given on the next chat call, before the
\* new message
Context(kind, conv) ==
    CASE kind = "openai_responses_agent" ->
            IF conv.previous_response_id = NoneId THEN <<>>
            ELSE conv.responses[conv.previous_response_id]
      [] kind = "google_adk_agent" -> Lookup(conv.sessions, conv._session_id)
      [] kind = "langgraph_agent" -> Lookup(conv.memory, conv.thread_id)
      [] kind = "crewai_agent" -> conv._messages
      [] kind = "smolagents_agent" -> conv.memory
      [] kind = "openai_agents_sdk_agent" -> conv.conversation_history
      [] kind = "llama_index_agent" -> conv.memory

(* --------------------- a caller of one adapter module ------------------ *)

NoCall == [op |-> "none"]

\* a call, the state it was made in and its result; history is the history
\* the host showed when it made the call
Call(op, agent, message, env, history, out) ==
    [op |-> op, kind |-> agent.kind, message |-> message, env |-> env,
     before |-> agent.conv, history |-> history, out |-> out]

\* agent = Agent()
NewInstance(kind) ==
    [kind |-> kind, conv |-> NewConv(kind), calls |-> 0, has_clear_chat |-> TRUE]

NoInstance == [kind |-> "", conv |-> <<>>, calls |-> 0, has_clear_chat |-> FALSE]

NoEvent == [type |-> "none", pick |-> "", text |-> <<>>]

NoSwitch == [from |-> "", calls |-> 0, turns |-> 0]

InitAdapter ==
    /\ inst \in { NewInstance(k) : k \in AdapterKinds }
    /\ lastCall = NoCall
    /\ files = {}
    /\ session_state = <<>>
    /\ pc = "off"
    /\ event = NoEvent
    /\ available_agents = <<>>
    /\ options = {}
    /\ discoveries = 0
    /\ tried = <<>>
    /\ selected_agent = ""
    /\ screen = <<>>
    /\ switched = NoSwitch

\* response = agent.chat(query)
AdapterChat ==
    /\ inst.kind \in AdapterKinds
    /\ inst.calls < MaxCalls
    /\ \E message \in Msgs, env \in EnvsOf(inst.kind) :
          LET out == chat(inst.kind, inst.conv, message, env)
          IN /\ lastCall' = Call("chat", inst, message, env, <<>>, out)
             /\ inst' = [inst EXCEPT !.conv = out.conv, !.calls = @ + 1]
    /\ UNCHANGED hostVars

\* agent.clear_chat()
AdapterClearChat ==
    /\ inst.kind \in AdapterKinds
    /\ inst.calls < MaxCalls
    /\ LET out == clear_chat(inst.kind, inst.conv)
       IN /\ lastCall' = Call("clear_chat", inst, <<>>, [sc |-> "true", exc |-> ""], <<>>, out)
          /\ inst' = [inst EXCEPT !.conv = out.conv, !.calls = @ + 1]
    /\ UNCHANGED hostVars

NextAdapter == AdapterChat \/ AdapterClearChat

SpecAdapter == InitAdapter /\ [][NextAdapter]_vars

(* --------------- a caller that may run inside an event loop ------------ *)

\* the adapters whose chat drives a coroutine with asyncio.run
AsyncKinds == { "google_adk_agent", "llama_index_agent" }

chat_in(running_loop, kind, conv, message, env) ==
    CASE kind = "google_adk_agent" -> google_adk_chat_in(running_loop, conv, message, env)
      [] kind = "llama_index_agent" -> llama_index_chat_in(running_loop, conv, message, env)

InitAsync ==
    /\ inst \in { NewInstance(k) : k \in AsyncKinds }
    /\ lastCall = NoCall
    /\ files = {}
    /\ session_state = <<>>
    /\ pc = "caller"
    /\ event = NoEvent
    /\ available_agents = <<>>
    /\ options = {}
    /\ discoveries = 0
    /\ tried = <<>>
    /\ selected_agent = ""
    /\ screen = <<>>
    /\ switched = NoSwitch

\* agent.chat(query) from plain synchronous code, or from a callback or
\* coroutine of a running event loop
AsyncCallerChat ==
    /\ pc = "caller"
    /\ inst.calls < MaxCalls
    /\ \E message \in Msgs, env \in EnvsOf(inst.kind), running_loop \in BOOLEAN :
          LET out == chat_in(running_loop, inst.kind, inst.conv, message, env)
          IN /\ lastCall' = Call(IF running_loop THEN "chat_in_loop" ELSE "chat",
                                 inst, message, env, <<>>, out)
             /\ inst' = [inst EXCEPT !.conv = out.conv, !.calls = @ + 1]
    /\ UNCHANGED hostVars

NextAsync == AsyncCallerChat

SpecAsync == InitAsync /\ [][NextAsync]_vars

(* ------------------ modules found in the directory --------------------- *)

\* A *_agent.py module that is not one of the seven adapters: its Agent is
\* any class, its instances are whatever that class makes them.
CustomModule == "custom_agent"

Modules == AdapterKinds \cup {CustomModule}

\* self.name of the instances of a module
NameOf(module) ==
    CASE module = "openai_responses_agent" -> "OpenAI Responses API Agent"
      [] module = "google_adk_agent" -> "Google ADK Agent"
      [] module = "langgraph_agent" -> "LangGraph Agent"
      [] module = "crewai_agent" -> "CrewAI Agent"
      [] module = "smolagents_agent" -> "SmolAgents Agent"
      [] module = "openai_agents_sdk_agent" -> "OpenAI Agents SDK Agent"
      [] module = "llama_index_agent" -> "Llama-Index Agent"
      [] OTHER -> "Custom Agent"

\* What one attempt to import a module and construct its Agent meets:
\*   import_ok   importlib.import_module returns
\*   agent       the module's Agent attribute: "missing", "not_callable", "class"
\*   ctor_ok     Agent() returns
\*   obj         the object Agent() returns: "none", "no_name", "no_chat",
\*               "chat_not_callable", "agent" (name and callable chat),
\*               "agent_no_clear" (the same without a clear_chat),
\*               "agent_name_empty", "agent_name_none", "agent_name_int" (a
\*               callable chat and a name that is "", None or a number)
Attempt(import_ok, agent_attr, ctor_ok, obj) ==
    [import_ok |-> import_ok, agent |-> agent_attr, ctor_ok |-> ctor_ok, obj |-> obj]

\* an adapter module imports or not (a missing dependency), its constructor
\* returns or raises (a missing key), its instances satisfy the contract
AdapterAttempts ==
    { Attempt(TRUE, "class", TRUE, "agent"), Attempt(TRUE, "class", FALSE, "agent"),
      Attempt(FALSE, "class", TRUE, "agent") }

CustomAttempts ==
    AdapterAttempts
    \cup { Attempt(TRUE, a, TRUE, "agent") : a \in {"missing", "not_callable"} }
    \cup { Attempt(TRUE, "class", TRUE, o) :
             o \in {"none", "no_name", "no_chat", "chat_not_callable", "agent_no_clear",
                    "agent_name_empty", "agent_name_none", "agent_name_int"} }

AttemptsOf(module) == IF module = CustomModule THEN CustomAttempts ELSE AdapterAttempts

\* the conversation state of a custom agent: the messages it was given
custom_init == [seen |-> <<>>]

\* chat of a custom agent: it answers, or returns an object that is not a
\* string, or raises
custom_chat(conv, message, env) ==
    IF Raising(env)
    THEN Raise(env.exc, conv)
    ELSE Return(IF env.sc = "empty" THEN "object" ELSE "str", ModelText(env),
                [seen |-> Append(conv.seen, message)])

\* clear_chat of a custom agent: returns True, returns False or raises
custom_clear_chat(conv, how) ==
    CASE how = "true" -> Return("bool", TRUE, [seen |-> <<>>])
      [] how = "false" -> Return("bool", FALSE, conv)
      [] how = "raise" -> Raise("cannot reset", conv)

ClearOutcomes(kind) == IF kind = CustomModule THEN {"true", "false", "raise"} ELSE {"true"}

(* -------------------------- src/agent-ui.py ---------------------------- *)

_is_valid_agent_instance(obj) ==
    IF obj = "none" THEN FALSE
    ELSE IF obj = "no_name" THEN FALSE
    ELSE IF obj \in {"no_chat", "chat_not_callable"} THEN FALSE
    ELSE TRUE

\* the instance, or NoInstance for None
_safe_get_agent_instance(module, attempt) ==
    IF attempt.agent \in {"missing", "not_callable"} THEN NoInstance
    ELSE IF ~attempt.ctor_ok THEN NoInstance
    ELSE IF _is_valid_agent_instance(attempt.obj)
         THEN [kind |-> module,
               conv |-> IF module = CustomModule THEN custom_init ELSE NewConv(module),
               calls |-> 0,
               has_clear_chat |-> attempt.obj # "agent_no_clear"]
         ELSE NoInstance

\* importlib.import_module(name) followed by _safe_get_agent_instance, inside
\* the try block of its caller: the instance, or NoInstance when the block was
\* left by an exception
LoadAgent(module, attempt) ==
    IF ~attempt.import_ok THEN NoInstance ELSE _safe_get_agent_instance(module, attempt)

\* the attempts made on the modules of the directory, one per module
RECURSIVE AttemptMapsOver(_)
AttemptMapsOver(modules) ==
    IF modules = {} THEN { <<>> }
    ELSE LET f == CHOOSE x \in modules : TRUE
         IN { m @@ (f :> a) : m \in AttemptMapsOver(modules \ {f}), a \in AttemptsOf(f) }

AttemptMaps == AttemptMapsOver(files)

\* a Python value that is a string, and two that are not
PyStr(text) == [ty |-> "str", v |-> text]

PyNone == [ty |-> "NoneType", v |-> ""]

PyInt == [ty |-> "int", v |-> "7"]

\* temp_agent.name of the object an attempt constructed
name(module, attempt) ==
    CASE attempt.obj = "agent_name_empty" -> PyStr("")
      [] attempt.obj = "agent_name_none" -> PyNone
      [] attempt.obj = "agent_name_int" -> PyInt
      [] OTHER -> PyStr(NameOf(module))

\* the loop of lines 44-54 with the try block around the whole loop: the
\* first module that fails ends the listing
get_available_agents_in_unguarded(directory, attempts) ==
    IF \E f \in directory : LoadAgent(f, attempts[f]) = NoInstance
    THEN <<>>
    ELSE [f \in directory |-> name(f, attempts[f])]

\* lines 42-55 over the modules of a directory: every module is tried in a
\* try block of its own
get_available_agents_in(directory, attempts) ==
    LET loaded == { f \in directory : LoadAgent(f, attempts[f]) # NoInstance }
    IN [f \in loaded |-> name(f, attempts[f])]

get_available_agents(attempts) == get_available_agents_in(files, attempts)

Has(key) == key \in DOMAIN session_state

Put(state, key, value) ==
    [k \in DOMAIN state \cup {key} |-> IF k = key THEN value ELSE state[k]]

Del(state, key) == [k \in DOMAIN state \ {key} |-> state[k]]

\* the history the host shows: st.session_state.messages, nothing before the
\* key exists
Messages(state) == IF "messages" \in DOMAIN state THEN state["messages"] ELSE <<>>

Rendered(element) == \E i \in DOMAIN screen : screen[i] = element

Rerun == [type |-> "rerun", pick |-> "", text |-> <<>>]

\* the interactions the page offers between two script runs: a plain rerun,
\* a choice in the selectbox, a message in the chat input, the Clear Chat
\* button; each widget only if the last run rendered it
Events ==
    {Rerun}
    \cup { [type |-> "select", pick |-> m, text |-> <<>>] :
             m \in { x \in options : Rendered("sidebar.selectbox") } }
    \cup { [type |-> "chat", pick |-> "", text |-> t] :
             t \in { x \in Msgs : x # <<>> /\ Rendered("chat_input") } }
    \cup { [type |-> "clear", pick |-> "", text |-> <<>>] :
             b \in { x \in {TRUE} : Rendered("sidebar.button") } }

InitHost ==
    /\ inst = NoInstance
    /\ lastCall = NoCall
    /\ files \in { d \in SUBSET Modules : Cardinality(d) >= 1 /\ Cardinality(d) <= MaxFiles }
    /\ session_state = <<>>
    /\ pc = "idle"
    /\ event = NoEvent
    /\ available_agents = <<>>
    /\ options = {}
    /\ discoveries = 0
    /\ tried = <<>>
    /\ selected_agent = ""
    /\ screen = <<>>
    /\ switched = NoSwitch

\* an interaction starts a script run; a choice in the selectbox is in the
\* widget's state when the run starts
StartRun ==
    /\ pc = "idle"
    /\ \E e \in Events :
          /\ (e.type \in {"chat", "clear"} /\ Has("agent")) =>
                 session_state["agent"].calls < MaxSessionCalls
          /\ event' = e
          /\ session_state' = IF e.type = "select"
                              THEN Put(session_state, "agent_selector", e.pick)
                              ELSE session_state
    /\ switched' = NoSwitch
    /\ lastCall' = NoCall
    /\ pc' = "discover"
    /\ screen' = <<>>
    /\ options' = {}
    /\ UNCHANGED <<inst, files, available_agents, discoveries, tried, selected_agent>>

\* lines 58-62: available_agents = get_available_agents(); st.stop() if empty
Discover ==
    /\ pc = "discover"
    /\ available_agents' \in { get_available_agents(a) : a \in AttemptMaps }
    /\ discoveries' = IF discoveries < MaxDiscoveries THEN discoveries + 1 ELSE discoveries
    /\ IF DOMAIN available_agents' = {}
       THEN /\ screen' = Append(screen, "sidebar.warning")
            /\ event' = NoEvent
            /\ selected_agent' = ""
            /\ lastCall' = NoCall
            /\ switched' = NoSwitch
            /\ pc' = "idle"
       ELSE /\ screen' = screen
            /\ event' = event
            /\ selected_agent' = selected_agent
            /\ lastCall' = lastCall
            /\ switched' = switched
            /\ pc' = "select"
    /\ UNCHANGED <<inst, files, session_state, options, tried>>

\* lines 64-69: the selectbox returns the value in its state when that is one
\* of the options, and the first option otherwise; the order of the options is
\* the order of the directory listing
SelectBox ==
    /\ pc = "select"
    /\ selected_agent' \in
          IF Has("agent_selector") /\ session_state["agent_selector"] \in DOMAIN available_agents
          THEN { session_state["agent_selector"] }
          ELSE { first : first \in DOMAIN available_agents }
    /\ session_state' = Put(session_state, "agent_selector", selected_agent')
    /\ screen' = Append(screen, "sidebar.selectbox")
    /\ pc' = "switch"
    /\ options' = DOMAIN available_agents
    /\ available_agents' = <<>>
    /\ UNCHANGED <<inst, lastCall, files, event, discoveries, tried, switched>>

\* lines 76-81 with the messages left as they are
reset_session_keeps_messages(state, selected) ==
    IF state["current_agent_type"] # selected
    THEN LET typed == Put(state, "current_agent_type", selected)
         IN IF "agent" \in DOMAIN typed THEN Del(typed, "agent") ELSE typed
    ELSE state

\* lines 76-81 with the agent left in the session
reset_session_keeps_agent(state, selected) ==
    IF state["current_agent_type"] # selected
    THEN LET typed == Put(state, "current_agent_type", selected)
         IN IF "messages" \in DOMAIN typed THEN Put(typed, "messages", <<>>) ELSE typed
    ELSE state

\* lines 76-81 without the comparison of the agent types
reset_session_always(state, selected) ==
    LET typed == Put(state, "current_agent_type", selected)
        dropped == IF "agent" \in DOMAIN typed THEN Del(typed, "agent") ELSE typed
    IN IF "messages" \in DOMAIN dropped THEN Put(dropped, "messages", <<>>) ELSE dropped

\* lines 76-81: on a change of the agent type record it, drop the agent and
\* empty the messages
reset_session(state, selected) ==
    IF state["current_agent_type"] # selected
    THEN LET typed == Put(state, "current_agent_type", selected)
             dropped == IF "agent" \in DOMAIN typed THEN Del(typed, "agent") ELSE typed
         IN IF "messages" \in DOMAIN dropped
            THEN Put(dropped, "messages", <<>>)
            ELSE dropped
    ELSE state

SwitchAgent ==
    /\ pc = "switch"
    /\ LET recorded == IF Has("current_agent_type") THEN session_state
                       ELSE Put(session_state, "current_agent_type", selected_agent)
       IN /\ session_state' = reset_session(recorded, selected_agent)
          /\ switched' =
                IF recorded["current_agent_type"] # session_state'["current_agent_type"]
                THEN [from |-> recorded["current_agent_type"],
                      calls |-> IF Has("agent") THEN session_state["agent"].calls ELSE 0,
                      turns |-> Len(Messages(session_state))]
                ELSE NoSwitch
    /\ pc' = "init"
    /\ UNCHANGED <<inst, lastCall, files, event, available_agents, options, discoveries, tried, selected_agent, screen>>

\* the script going on without an agent
stop_never(state) == FALSE

\* lines 95-96: st.stop() when the session holds no agent
stop_without_agent(state) == "agent" \notin DOMAIN state

\* lines 84-96: construct the agent when none is held; st.stop() without one
InitAgent ==
    /\ pc = "init"
    /\ IF Has("agent")
       THEN /\ session_state' = session_state
            /\ screen' = screen
       ELSE \E agent_instance \in { LoadAgent(selected_agent, attempt) :
                                      attempt \in AttemptsOf(selected_agent) } :
                 IF agent_instance = NoInstance
                 THEN /\ session_state' = session_state
                      /\ screen' = Append(screen, "error: Error loading agent.")
                 ELSE /\ session_state' = Put(session_state, "agent", agent_instance)
                      /\ screen' = screen
    /\ IF stop_without_agent(session_state')
       THEN event' = NoEvent /\ selected_agent' = "" /\ pc' = "idle"
       ELSE event' = event /\ selected_agent' = selected_agent /\ pc' = "render"
    /\ UNCHANGED <<inst, lastCall, files, available_agents, options, discoveries, tried, switched>>

\* lines 98-108: create the messages when absent, show the title and the
\* history
Render ==
    /\ pc = "render"
    /\ session_state' = IF Has("messages") THEN session_state
                        ELSE Put(session_state, "messages", <<>>)
    /\ screen' = screen \o <<"title", "history">>
    /\ pc' = "input"
    /\ UNCHANGED <<inst, lastCall, files, event, available_agents, options, discoveries, tried, selected_agent, switched>>

\* the host sees the result of a call, not what happened inside it
Unobserved == [sc |-> "unobserved", exc |-> ""]

\* agent.chat(user_input) on the instance the session holds
CallChat(agent, message, env) ==
    IF agent.kind = CustomModule
    THEN custom_chat(agent.conv, message, env)
    ELSE chat(agent.kind, agent.conv, message, env)

\* lines 121-125: str(response), or the fixed text when chat raised
ResponseText(out) ==
    IF out.raised THEN <<"Error: Something went wrong.">>
    ELSE IF out.ty = "str" THEN out.reply
    ELSE <<"str(">> \o out.reply \o <<")">>

\* lines 112-128 without the assistant turn when chat raised
append_turns_unless_raised(messages, user_input, out) ==
    IF out.raised THEN Append(messages, user(user_input))
    ELSE messages \o << user(user_input), assistant(ResponseText(out)) >>

\* lines 112 and 128: the user turn, then the assistant turn
append_turns(messages, user_input, out) ==
    messages \o << user(user_input), assistant(ResponseText(out)) >>

\* lines 111-128: the chat input and the handling of a submitted message
ChatInput ==
    /\ pc = "input"
    /\ IF event.type = "chat"
       THEN \E out \in { CallChat(session_state["agent"], event.text, env) :
                           env \in IF session_state["agent"].kind = CustomModule THEN Envs
                                   ELSE EnvsOf(session_state["agent"].kind) } :
              LET agent == session_state["agent"]
              IN /\ session_state' =
                       Put(Put(session_state, "messages",
                               append_turns(session_state["messages"], event.text, out)),
                           "agent", [agent EXCEPT !.conv = out.conv, !.calls = @ + 1])
                 /\ lastCall' = Call("chat", agent, event.text, Unobserved,
                                     session_state["messages"], out)
       ELSE /\ session_state' = session_state
            /\ lastCall' = lastCall
    /\ screen' = Append(screen, "chat_input")
    /\ pc' = "clear"
    /\ UNCHANGED <<inst, files, event, available_agents, options, discoveries, tried, selected_agent, switched>>

\* line 137 made to depend on the success of clear_chat
clear_messages_on_success(state, out) ==
    IF ~out.raised /\ out.ty = "bool" /\ out.reply = TRUE
    THEN Put(state, "messages", <<>>)
    ELSE state

\* line 137: the messages are emptied whatever clear_chat did
clear_messages(state, out) == Put(state, "messages", <<>>)

\* lines 131-138: the Clear Chat button; a click calls clear_chat when the
\* agent has one, empties the messages and reruns the script
ClearChat ==
    /\ pc = "clear"
    /\ IF event.type = "clear"
       THEN /\ LET agent == session_state["agent"]
                   history == session_state["messages"]
               IN IF agent.has_clear_chat
                  THEN \E how \in ClearOutcomes(agent.kind) :
                         LET out == IF agent.kind = CustomModule
                                    THEN custom_clear_chat(agent.conv, how)
                                    ELSE clear_chat(agent.kind, agent.conv)
                         IN /\ session_state' =
                                  clear_messages(
                                      Put(session_state, "agent",
                                          [agent EXCEPT !.conv = out.conv, !.calls = @ + 1]),
                                      out)
                            /\ lastCall' = Call("clear_chat", agent, <<>>,
                                                Unobserved, history, out)
                  ELSE LET out == Return("none", <<>>, agent.conv)
                       IN /\ session_state' = clear_messages(session_state, out)
                          /\ lastCall' = Call("no_clear_chat", agent, <<>>,
                                              Unobserved, history, out)
            /\ event' = Rerun
            /\ screen' = <<>>
            /\ options' = {}
            /\ selected_agent' = selected_agent
            /\ switched' = NoSwitch
            /\ pc' = "discover"
       ELSE /\ session_state' = session_state
            /\ lastCall' = NoCall
            /\ event' = NoEvent
            /\ screen' = Append(screen, "sidebar.button")
            /\ options' = options
            /\ selected_agent' = ""
            /\ switched' = NoSwitch
            /\ pc' = "idle"
    /\ UNCHANGED <<inst, files, available_agents, discoveries, tried>>

Next ==
    \/ StartRun
    \/ Discover
    \/ SelectBox
    \/ SwitchAgent
    \/ InitAgent
    \/ Render
    \/ ChatInput
    \/ ClearChat

Spec == InitHost /\ [][Next]_vars

(* ------------------- a caller of get_available_agents ------------------ *)

InitDiscovery ==
    /\ inst = NoInstance
    /\ lastCall = NoCall
    /\ files \in { d \in SUBSET Modules : Cardinality(d) >= 1 /\ Cardinality(d) <= MaxFiles }
    /\ session_state = <<>>
    /\ pc = "discovery"
    /\ event = NoEvent
    /\ available_agents = <<>>
    /\ options = {}
    /\ discoveries = 0
    /\ tried = <<>>
    /\ selected_agent = ""
    /\ screen = <<>>
    /\ switched = NoSwitch

\* agents = get_available_agents(), with what the modules did in the call
CallGetAvailableAgents ==
    /\ pc = "discovery"
    /\ \E a \in AttemptMaps :
          /\ tried' = a
          /\ available_agents' = get_available_agents(a)
    /\ discoveries' = IF discoveries < MaxDiscoveries THEN discoveries + 1 ELSE discoveries
    /\ UNCHANGED <<inst, lastCall, files, session_state, pc, event, options, selected_agent,
                   screen, switched>>

NextDiscovery == CallGetAvailableAgents

SpecDiscovery == InitDiscovery /\ [][NextDiscovery]_vars

(* ------------------ properties of the adapter contract ----------------- *)

\* C1: for every adapter and every message, the empty one included, chat
\* returns a string and raises nothing to its caller, whatever fails inside.
C1_ChatTotal ==
    lastCall.op = "chat" =>
        /\ ~lastCall.out.raised
        /\ lastCall.out.ty = "str"

\* a chat call on the empty message during which the search provider raised
C1_Witness ==
    /\ lastCall.op = "chat"
    /\ lastCall.message = <<>>
    /\ lastCall.env.sc = "tool_raise"
    /\ ~lastCall.out.raised

\* C2: the reply of a chat call in which a fault occurred does not depend on
\* the text of the exception: the same call with any other exception text
\* returns the same reply.
C2_ErrorReplyIndependentOfException ==
    (lastCall.op = "chat" /\ Raising(lastCall.env)) =>
        \A e \in ExcTexts :
            chat(lastCall.kind, lastCall.before, lastCall.message,
                 [lastCall.env EXCEPT !.exc = e]).reply = lastCall.out.reply

\* C3: after clear_chat has returned True the conversation handed to the
\* backend on the next chat is the one of a freshly constructed instance.
C3_ClearResetsConversation ==
    (lastCall.op = "clear_chat" /\ lastCall.out.reply = TRUE) =>
        Context(inst.kind, inst.conv) = Context(inst.kind, NewConv(inst.kind))

\* clear_chat returned True on an instance that had a conversation
C3_Witness ==
    /\ lastCall.op = "clear_chat"
    /\ lastCall.out.reply = TRUE
    /\ Len(Context(lastCall.kind, lastCall.before)) >= 2

\* C4: clear_chat called in the reset state returns True again and leaves the
\* reset state, also for the adapters that reset by taking a new thread id or
\* session id.
C4_ClearIdempotent ==
    (lastCall.op = "clear_chat" /\ Context(lastCall.kind, lastCall.before) = <<>>) =>
        /\ ~lastCall.out.raised
        /\ lastCall.out.reply = TRUE
        /\ Context(inst.kind, inst.conv) = <<>>

\* the second of two clear_chat calls on a LangGraph instance whose first
\* thread holds a conversation
C4_Witness ==
    /\ lastCall.op = "clear_chat"
    /\ lastCall.kind = "langgraph_agent"
    /\ lastCall.before.thread_id = 2
    /\ inst.conv.thread_id = 3
    /\ Lookup(inst.conv.memory, 1) # <<>>
    /\ Lookup(inst.conv.memory, 2) = <<>>

(* ----------------------- properties of the host ------------------------ *)

LoadError == "error: Error loading agent."

\* the agent type recorded was changed by the script run under way
TypeChanged == switched # NoSwitch

\* C5: when the selected agent changes from A to B the history the host shows
\* is empty after the switch, whatever it was under A, and stays empty whether
\* the construction of B succeeds or fails.
C5_SwitchEmptiesHistory ==
    (TypeChanged /\ (pc \in {"init", "render", "input"} \/ (pc = "idle" /\ Rendered(LoadError))))
        => Messages(session_state) = <<>>

\* the state after the switch block of a run that started with a history
C5_Witness ==
    /\ pc = "init"
    /\ TypeChanged
    /\ switched.turns >= 2
    /\ session_state["current_agent_type"] # switched.from
    /\ Messages(session_state) = <<>>

\* C6: the session holds at most one agent instance, under the key "agent",
\* and that instance was constructed for the recorded agent type; after a
\* change of the selection the instance held is a newly constructed one with
\* none of the conversation state of an earlier instance.
C6_OneInstanceOfRecordedType ==
    /\ Has("agent") =>
          /\ Has("current_agent_type")
          /\ session_state["agent"].kind = session_state["current_agent_type"]
    /\ (TypeChanged /\ pc = "render") =>
          /\ Has("agent")
          /\ session_state["agent"].calls = 0
          /\ session_state["agent"].conv =
                 (IF session_state["agent"].kind = CustomModule THEN custom_init
                  ELSE NewConv(session_state["agent"].kind))

\* a new instance held after a switch away from an agent that had a
\* conversation
C6_Witness ==
    /\ pc = "render"
    /\ TypeChanged
    /\ switched.calls >= 1
    /\ Has("agent")
    /\ session_state["agent"].kind # switched.from
    /\ session_state["agent"].calls = 0

\* C7: when the construction or validation of the selected agent fails the
\* run ends with no agent held, the instance of the agent that was active
\* before included, with nothing but the selectbox and the generic load error
\* rendered, without a chat call, and with no chat input and no Clear Chat
\* button to interact with.
C7_LoadFailureLeavesUnselected ==
    Rendered(LoadError) =>
        /\ pc = "idle"
        /\ ~Has("agent")
        /\ screen = <<"sidebar.selectbox", LoadError>>
        /\ lastCall.op # "chat"
        /\ \A e \in Events : e.type \in {"rerun", "select"}

\* a failed load of the agent switched to, while another agent with a
\* conversation was active
C7_Witness ==
    /\ Rendered(LoadError)
    /\ TypeChanged
    /\ switched.calls >= 1
    /\ switched.turns >= 2
    /\ ~Has("agent")

\* the steps of a script run that handle neither a message nor a click, with
\* the selection equal to the agent type recorded
SameSelectionStep ==
    /\ Has("agent")
    /\ \/ pc \in {"discover", "select", "render"}
       \/ pc = "switch" /\ session_state["current_agent_type"] = selected_agent
       \/ pc = "init"
       \/ pc = "input" /\ event.type # "chat"
       \/ pc = "clear" /\ event.type # "clear"

\* C8: a script run in which the selection is the agent type already active
\* leaves the instance held, its conversation state included, and the history
\* as they were.
C8_SameSelectionIsNoOp ==
    [][ SameSelectionStep =>
            /\ "agent" \in DOMAIN session_state'
            /\ session_state'["agent"] = session_state["agent"]
            /\ Messages(session_state') = Messages(session_state) ]_vars

\* the end of a run with an unchanged selection on an agent with a
\* conversation
C8_Witness ==
    /\ pc = "clear"
    /\ event.type = "rerun"
    /\ switched = NoSwitch
    /\ Has("agent")
    /\ session_state["current_agent_type"] = selected_agent
    /\ session_state["agent"].calls >= 1
    /\ Len(Messages(session_state)) >= 2

Alternates(messages) ==
    /\ Len(messages) % 2 = 0
    /\ \A i \in DOMAIN messages :
          messages[i].role = IF i % 2 = 1 THEN "user" ELSE "assistant"

\* C9: a handled message appends one user turn and one assistant turn to the
\* history, also when the reply is an error text or chat raised; the history
\* always has even length and alternates user, assistant.
C9_TurnsAppendedInPairs ==
    /\ Alternates(Messages(session_state))
    /\ lastCall.op = "chat" =>
          Messages(session_state) =
              lastCall.history
              \o << user(lastCall.message), assistant(ResponseText(lastCall.out)) >>

\* a second message handled, on which the chat of the agent raised
C9_Witness ==
    /\ lastCall.op = "chat"
    /\ lastCall.out.raised
    /\ Len(lastCall.history) = 2
    /\ Len(Messages(session_state)) = 4

\* C10: a click on Clear Chat leaves the history empty, whether clear_chat
\* returned True, returned False, raised, or is not there.
C10_ClearEmptiesHistory ==
    lastCall.op \in {"clear_chat", "no_clear_chat"} => Messages(session_state) = <<>>

\* a click with a history on the screen, on an agent whose clear_chat raised
C10_Witness ==
    /\ lastCall.op = "clear_chat"
    /\ lastCall.out.raised
    /\ Len(lastCall.history) >= 2
    /\ Messages(session_state) = <<>>

(* ------------------------ properties of discovery ---------------------- *)

\* an attempt on a candidate that does not import, has no callable Agent,
\* raises in its constructor or yields an object without a callable chat
FailedCandidate(attempt) ==
    \/ ~attempt.import_ok
    \/ attempt.agent \in {"missing", "not_callable"}
    \/ ~attempt.ctor_ok
    \/ attempt.obj \in {"none", "no_chat", "chat_not_callable"}

\* C11: a candidate that fails to import, has no callable Agent, raises in
\* its constructor or yields an object without a callable chat is never in
\* the discovered map, and the map of a directory with such a candidate is the
\* map of the directory without it: the entries of the others are unchanged.
C11_DiscoveryResilient ==
    discoveries >= 1 =>
        \A f \in files :
            FailedCandidate(tried[f]) =>
                /\ f \notin DOMAIN available_agents
                /\ available_agents = get_available_agents_in(files \ {f}, tried)

\* a discovery in which one candidate failed and another one is listed
C11_Witness ==
    /\ discoveries >= 1
    /\ \E f \in files : FailedCandidate(tried[f]) /\ f \notin DOMAIN available_agents
    /\ \E g \in files : g \in DOMAIN available_agents

\* C12: every display name in the discovered map is a non-empty string (the
\* ids, being the keys of the map, are unique); a candidate whose name is
\* empty, None or not a string is not admitted.
C12_NamesAreNonEmptyStrings ==
    \A f \in DOMAIN available_agents :
        /\ available_agents[f].ty = "str"
        /\ available_agents[f].v # ""

\* C13: get_available_agents runs once per process: it is not run again when
\* the selection changes, a message is sent or the chat is cleared.
C13_DiscoveredOnce == discoveries <= 1

\* the module names in lexicographic order
ModuleOrder ==
    << "crewai_agent", "custom_agent", "google_adk_agent", "langgraph_agent",
       "llama_index_agent", "openai_agents_sdk_agent", "openai_responses_agent",
       "smolagents_agent" >>

Rank(module) == CHOOSE i \in 1..Len(ModuleOrder) : ModuleOrder[i] = module

LexicographicFirst(modules) ==
    CHOOSE m \in modules : \A n \in modules : Rank(m) <= Rank(n)

\* C14: the options are in lexicographic order of the module names whatever
\* the order of the directory listing, so the selection made by default in a
\* session that has not selected yet is the lexicographically first module
\* discovered.
C14_DefaultIsLexicographicFirst ==
    (pc = "switch" /\ ~Has("current_agent_type")) =>
        selected_agent = LexicographicFirst(options)

(* ------------------ properties of the guards of the host --------------- *)

\* the host is about to forward a message or to handle a click on Clear Chat,
\* or has just done so
Forwarding ==
    \/ pc = "input" /\ event.type = "chat"
    \/ pc = "clear" /\ (event.type = "clear" \/ lastCall.op = "chat")
    \/ pc = "discover" /\ event = Rerun /\ lastCall.op \in {"clear_chat", "no_clear_chat"}

\* C18: whenever the host forwards a user message to chat or handles the
\* clear action, the session holds an agent instance: no call is made while
\* no agent is selected.
C18_NoCallWhileUnselected ==
    Forwarding =>
        /\ Has("agent")
        /\ Has("current_agent_type")
        /\ session_state["agent"].kind = session_state["current_agent_type"]

\* a message forwarded in a run that had to replace the agent: the module
\* selected before was not discovered in this run
C18_Witness ==
    /\ pc = "clear"
    /\ lastCall.op = "chat"
    /\ TypeChanged
    /\ Has("agent")
    /\ session_state["agent"].calls = 1

(* ------------------ properties of the tool and fault paths ------------- *)

\* the try block of chat, what it returned or the exception that left it
TryOf(kind, conv, message, env) ==
    CASE kind = "openai_responses_agent" -> openai_responses_try(conv, message, env)
      [] kind = "google_adk_agent" -> google_adk_run(conv, message, env)
      [] kind = "langgraph_agent" -> langgraph_try(conv, message, env)
      [] kind = "crewai_agent" -> crewai_try(conv, message, env)
      [] kind = "smolagents_agent" -> smolagents_try(conv, message, env)
      [] kind = "openai_agents_sdk_agent" -> openai_agents_sdk_try(conv, message, env)
      [] kind = "llama_index_agent" -> _chat_async(conv, message, env)

\* the last call was a chat in which the search provider was called and
\* raised
SearchProviderFailed ==
    /\ lastCall.op = "chat"
    /\ lastCall.env.sc \in {"tool_raise", "tool_caught"}
    /\ lastCall.kind = "openai_responses_agent" =>
          responses_accepts(lastCall.before.responses, <<user(lastCall.message)>>,
                            lastCall.before.previous_response_id)

\* a chat call made now, with the providers working, returns the model's
\* answer and the turn is part of the conversation afterwards
Usable(kind, conv) ==
    LET next == chat(kind, conv, <<"hi">>, [sc |-> "text", exc |-> ""])
        context == Context(kind, next.conv)
    IN /\ ~next.raised
       /\ next.reply = <<"answer">>
       /\ Len(context) >= 2
       /\ context[Len(context) - 1] = user(<<"hi">>)
       /\ context[Len(context)] = assistant(<<"answer">>)

C16_ToolExceptionIsToolResult ==
    SearchProviderFailed =>
        /\ ~TryOf(lastCall.kind, lastCall.before, lastCall.message, lastCall.env).raised
        /\ lastCall.out.reply = ModelText(lastCall.env)

\* C17: chat called from a context with a running event loop runs the
\* provider call to completion and returns what it returns without that
\* loop; the conflict is surfaced neither as an exception nor as an error
\* reply.
C17_RunningLoopReused ==
    lastCall.op = "chat_in_loop" =>
        lastCall.out = chat(lastCall.kind, lastCall.before, lastCall.message, lastCall.env)

\* what the adapter itself holds of the conversation
Held(kind, conv) ==
    IF kind = "openai_responses_agent" THEN <<conv.previous_response_id>>
    ELSE Context(kind, conv)

\* C19: a chat call that fails internally leaves the conversation state the
\* adapter holds as it was (the history list of the CrewAI and OpenAI Agents
\* SDK adapters, previous_response_id of the Responses adapter), so the
\* history lists always alternate user, assistant.
C19_FailedChatLeavesState ==
    /\ (/\ lastCall.op = "chat"
        /\ lastCall.kind \in {"crewai_agent", "openai_agents_sdk_agent",
                              "openai_responses_agent"}
        /\ TryOf(lastCall.kind, lastCall.before, lastCall.message, lastCall.env).raised)
           => Held(inst.kind, inst.conv) = Held(lastCall.kind, lastCall.before)
    /\ inst.kind \in {"crewai_agent", "openai_agents_sdk_agent"} =>
           Alternates(Context(inst.kind, inst.conv))

\* the function_call_output items of a conversation for one call
OutputsFor(items, call_id) ==
    { i \in DOMAIN items :
        items[i].role = "function_call_output" /\ items[i].call_id = call_id }

\* C20: in the Responses adapter every function call the model emitted during
\* a chat turn has exactly one output with its call_id when the turn ends, and
\* after a successful chat previous_response_id is the last response of the
\* turn, a response without unanswered function calls.
C20_FunctionCallsAnswered ==
    (lastCall.op = "chat" /\ lastCall.kind = "openai_responses_agent") =>
        LET store == inst.conv.responses
            last == store[Len(store)]
        IN /\ Len(store) > Len(lastCall.before.responses) =>
                 \A c \in CallIds(last, "function_call") : Cardinality(OutputsFor(last, c)) = 1
           /\ ~TryOf(lastCall.kind, lastCall.before, lastCall.message, lastCall.env).raised =>
                 /\ inst.conv.previous_response_id = Len(store)
                 /\ Unanswered(store[inst.conv.previous_response_id]) = {}

(* ------------------ properties of the LangGraph threads ---------------- *)

\* a step of a caller of the LangGraph adapter: clear_chat moves to the next
\* thread id and touches no checkpoint, chat stays on its thread and writes
\* to that thread only; no thread beyond the current one has a checkpoint
ThreadStep ==
    LET conv == inst.conv
        after == inst'.conv
    IN /\ lastCall'.op = "clear_chat" =>
             /\ after.thread_id = conv.thread_id + 1
             /\ after.memory = conv.memory
             /\ Lookup(after.memory, after.thread_id) = <<>>
       /\ lastCall'.op = "chat" =>
             /\ after.thread_id = conv.thread_id
             /\ lastCall'.before = conv
             /\ \A t \in DOMAIN after.memory :
                   t # conv.thread_id => (t \in DOMAIN conv.memory /\ after.memory[t] = conv.memory[t])
       /\ \A t \in DOMAIN after.memory : t <= after.thread_id

\* C21: in the LangGraph adapter thread_id starts at 1, each clear_chat adds
\* exactly 1 to it and chat leaves it as it is; so no thread id is used again
\* and every chat after the k-th clear_chat runs on thread k+1, which holds no
\* checkpoint written before that clear.
C21_ThreadIdsNeverReused ==
    /\ inst.kind = "langgraph_agent" => inst.conv = [thread_id |-> 1, memory |-> <<>>]
    /\ [][ inst.kind = "langgraph_agent" => ThreadStep ]_vars

\* a chat on thread 2, after a conversation on thread 1 and one clear_chat
C21_Witness ==
    /\ inst.kind = "langgraph_agent"
    /\ lastCall.op = "chat"
    /\ lastCall.before.thread_id = 2
    /\ Lookup(lastCall.before.memory, 1) # <<>>
    /\ Lookup(lastCall.before.memory, 2) = <<>>
    /\ inst.conv.thread_id = 2
    /\ Lookup(inst.conv.memory, 2) # <<>>

====
